---- MODULE Spec2Model ----
(***************************************************************************)
(* Model of the SandboxShooter gameplay logic:                             *)
(*   - AItem / AWeapon        (Source/WorldItemsModule)                    *)
(*   - UWeaponHandlingComponent (Source/CharacterAttributeModule)          *)
(*   - ABelicaCharacter / ABelicaController (Source/LastShooterLS)         *)
(*                                                                         *)
(* Objects are records; every method of the source is an operator from    *)
(* the object's record to its updated record, and every engine callback,  *)
(* input handler and timer expiry is an action.                            *)
(*                                                                         *)
(* Engine timers: a timer handle holds Inactive or the remaining time of  *)
(* its single pending timer (FTimerManager::SetTimer on a handle replaces *)
(* the timer the handle refers to).  Remaining time is counted in         *)
(* TimerLevels abstract steps, each handle on its own clock, so that no   *)
(* ratio between the 0.05 s and 4 s durations is assumed.                 *)
(***************************************************************************)
EXTENDS Integers, FiniteSets, Sequences, TLC

\* ---------------------------------------------------------------- bounds
\* Granularity of a timer's remaining time.
TimerLevels == 2

\* Largest magnitude of the Amount argument of IncreaseOverlappedItemCount.
MaxAmount == 2

\* Largest number of elements of an item's ActiveStars array.
MaxStarSlots == 6

\* Longest frame time passed to DynamicCrosshair, in 1/TicksPerSecond s.
MaxDeltaTime == 3

\* The character's maximum speed, in speed steps.
MaxSpeedLevels == 2

\* ------------------------------------------------------------ fixed point
\* Crosshair multipliers are fixed-point numbers: 1.0 is Unit.
Unit == 10

\* DeltaTime is counted in 1/TicksPerSecond seconds.
TicksPerSecond == 30

\* ------------------------------------------------------------ enumerations
Weapons == {"w1", "w2"}

NoWeapon == "nullptr"

\* AWeapon::WeaponType as set in the editor for the two weapons.
WeaponTypeOf == [w \in Weapons |-> IF w = "w1" THEN "EWT_Pistol" ELSE "EWT_Shotgun"]

Inactive == -1

\* EItemState (Item.h)
EItemState == {"EIS_InWorld", "EIS_Equipping", "EIS_Stored", "EIS_Equipped", "EIS_Falling"}

\* EItemRarity (Item.h)
EItemRarity == {"EIR_Damaged", "EIR_Common", "EIR_Rare", "EIR_Legendary", "EIR_Mythic",
                "EIR_Cold", "EIR_MAX"}

\* EWeaponType (Weapon.h)
EWeaponType == {"EWT_Pistol", "EWT_Rifle", "EWT_Shotgun"}

\* EPlayerArmedState (WeaponHandlingComponent.h)
EPlayerArmedState == {"EPAS_Unarmed", "EPAS_Pistol", "EPAS_Rifle", "EPAS_Shotgun", "EPAS_MAX"}

\* The pawns OnPossess can be given, and the null ABelicaCharacter pointer.
Pawns == {"ABelicaCharacter", "APawn"}
NoCharacter == "nullptr"

VARIABLES
    item,            \* item[w]: the AItem/AWeapon object w
    WeaponHandling,  \* the character's UWeaponHandlingComponent
    EquippedWeapon,  \* ABelicaCharacter::EquippedWeapon
    EquipableItem,   \* ABelicaCharacter::EquipableItem
    sockets,         \* which named sockets the character mesh has
    DefaultWeaponClass, \* the actor spawning the component's DefaultWeaponClass
                     \* yields, nullptr when no class is set
    TestHandle,      \* the one-shot timer of ABelicaCharacter::BeginPlay
    Belica,          \* ABelicaController::Belica
    crashed,         \* a null pointer was dereferenced and the process died
    lastOp,          \* history: the operation of the last step
    lastArgs,        \* history: the arguments of the last step's operation
    shotFired,       \* history: the last step ran the body of ExecuteFireWeapon
    cooldownExpired  \* history: AutoFireTimerReset has run since the last shot

vars == <<item, WeaponHandling, EquippedWeapon, EquipableItem, sockets,
          DefaultWeaponClass, TestHandle, Belica, crashed,
          lastOp, lastArgs, shotFired, cooldownExpired>>

\* What is fixed once the callback of ABelicaCharacter::BeginPlay has run
\* and the controller has possessed its pawn.
belicaSetup == <<sockets, DefaultWeaponClass, TestHandle, Belica>>

\* ------------------------------------------------------------------ AItem

\* AItem::AItem (and AWeapon's WeaponType property).  Attached: the actor is
\* attached to a socket of the player's mesh.  Gravity and the
\* shape components' collision are left at the engine defaults (enabled).
NewItem(type) ==
    [ ItemState      |-> "EIS_InWorld",
      bIsFalling     |-> FALSE,
      ThrowItemTimer |-> Inactive,
      WeaponType     |-> type,
      ItemRarity     |-> "EIR_Common",
      ActiveStars    |-> << >>,
      OverlappedItemCount |-> 0,
      bShouldTraceForItem |-> FALSE,
      begunPlay      |-> FALSE,
      Attached       |-> FALSE,
      MeshSimulatePhysics |-> FALSE,
      MeshEnableGravity   |-> TRUE,
      MeshCollision       |-> "NoCollision",
      SphereCollision     |-> "QueryOnly",
      BoxCollision        |-> "QueryAndPhysics" ]

SetItemProperties_NoSphereOff(it, State) ==
    CASE State = "EIS_InWorld" ->
            [it EXCEPT !.MeshSimulatePhysics = FALSE,
                       !.MeshEnableGravity = FALSE,
                       !.MeshCollision = "NoCollision",
                       !.SphereCollision = "QueryOnly",
                       !.BoxCollision = "QueryAndPhysics"]
      [] State = "EIS_Equipped" ->
            [it EXCEPT !.MeshSimulatePhysics = FALSE,
                       !.MeshEnableGravity = FALSE,
                       !.MeshCollision = "NoCollision",
                       !.BoxCollision = "NoCollision"]
      [] State = "EIS_Falling" ->
            [it EXCEPT !.MeshSimulatePhysics = TRUE,
                       !.MeshEnableGravity = TRUE,
                       !.MeshCollision = "QueryAndPhysics",
                       !.SphereCollision = "NoCollision",
                       !.BoxCollision = "NoCollision"]
      [] OTHER -> it

\* AItem::SetItemProperties
SetItemProperties(it, State) ==
    CASE State = "EIS_InWorld" ->
            [it EXCEPT !.MeshSimulatePhysics = FALSE,
                       !.MeshEnableGravity = FALSE,
                       !.MeshCollision = "NoCollision",
                       !.SphereCollision = "QueryOnly",
                       !.BoxCollision = "QueryAndPhysics"]
      [] State = "EIS_Equipped" ->
            [it EXCEPT !.MeshSimulatePhysics = FALSE,
                       !.MeshEnableGravity = FALSE,
                       !.MeshCollision = "NoCollision",
                       !.SphereCollision = "NoCollision",
                       !.BoxCollision = "NoCollision"]
      [] State = "EIS_Falling" ->
            [it EXCEPT !.MeshSimulatePhysics = TRUE,
                       !.MeshEnableGravity = TRUE,
                       !.MeshCollision = "QueryAndPhysics",
                       !.SphereCollision = "NoCollision",
                       !.BoxCollision = "NoCollision"]
      [] OTHER -> it

\* The value an int8 holds after an int n is stored in it.
ToInt8(n) == ((n + 128) % 256) - 128

\* AItem::IncreaseOverlappedItemCount.  OverlappedItemCount is an int8:
\* the int sum is converted back to int8 on assignment.
IncreaseOverlappedItemCount(it, Amount) ==
    IF Amount > 0
    THEN [it EXCEPT !.OverlappedItemCount = ToInt8(@ + Amount),
                    !.bShouldTraceForItem = TRUE]
    ELSE [it EXCEPT !.OverlappedItemCount = 0,
                    !.bShouldTraceForItem = FALSE]

\* AItem::OnOverlapBegin.  bIsPlayer: OtherActor is the player character.
ItemOnOverlapBegin(it, bIsPlayer) ==
    IF bIsPlayer THEN IncreaseOverlappedItemCount(it, 1) ELSE it

\* AItem::OnOverlapEnd
ItemOnOverlapEnd(it, bIsPlayer) ==
    IF bIsPlayer THEN IncreaseOverlappedItemCount(it, -1) ELSE it

\* A TArray<bool> of Num elements, all false, as a function on 0..Num-1.
\* (<< >> is the empty array.)
NewArray(Num) == [i \in 0..(Num - 1) |-> FALSE]

\* The indices the switch of AItem::SetActiveStars assigns for a rarity.
StarIndices(Rarity) ==
    CASE Rarity = "EIR_Damaged"   -> 1..1
      [] Rarity = "EIR_Common"    -> 1..2
      [] Rarity = "EIR_Rare"      -> 1..3
      [] Rarity = "EIR_Legendary" -> 1..4
      [] Rarity = "EIR_Mythic"    -> 1..5
      [] OTHER -> {}

\* AItem::SetActiveStars.  The loop clears the elements the array has; each
\* ActiveStars[i] = true of the switch is an access to a TArray element.
\* outOfRange: some index the switch used is not an index of the array.
SetActiveStars(it) ==
    [it |-> [it EXCEPT !.ActiveStars =
                 [i \in DOMAIN it.ActiveStars |-> i \in StarIndices(it.ItemRarity)]],
     outOfRange |-> ~(StarIndices(it.ItemRarity) \subseteq DOMAIN it.ActiveStars)]

\* AItem::SetItemState
SetItemState(it, NewState) ==
    SetItemProperties([it EXCEPT !.ItemState = NewState], NewState)

\* AItem::BeginPlay (widget visibility and stars aside)
ItemBeginPlay(it) ==
    SetItemProperties([it EXCEPT !.begunPlay = TRUE], it.ItemState)

\* AItem::ThrowItem: the impulse is applied to the mesh, the flag is set and
\* ThrowItemTimer is (re)started.
ThrowItem(it) ==
    [it EXCEPT !.bIsFalling = TRUE, !.ThrowItemTimer = TimerLevels]

StopFalling_KeepsState(it) == [it EXCEPT !.bIsFalling = FALSE]

\* AItem::StopFalling
StopFalling(it) ==
    SetItemState([it EXCEPT !.bIsFalling = FALSE], "EIS_InWorld")

\* ------------------------------------------------ UWeaponHandlingComponent

\* UWeaponHandlingComponent::UWeaponHandlingComponent
NewWeaponHandling ==
    [ DefaultCameraFOV  |-> 90,
      CurrentCameraFOV  |-> 90,
      ZoomedCameraFOV   |-> 45,
      ZoomInterpSpeed   |-> 20,
      bIsAiming         |-> FALSE,
      AcceleratingCrosshairMultiplier     |-> 0,
      InAirCrosshairMultiplier            |-> 0,
      WeaponFireWeaponCrosshairMultiplier |-> 0,
      AimingCrosshairMultiplier           |-> 0,
      bIsFiringWeapon   |-> FALSE,
      bShouldFireWeapon |-> TRUE,
      bIsArmed          |-> FALSE,
      bIsArmedPistol    |-> FALSE,
      bIsArmedRifle     |-> FALSE,
      bIsArmedShotGun   |-> FALSE,
      WeaponFireTimer   |-> Inactive,
      DynamicCrosshairWeaponFireTimer |-> Inactive ]

\* UWeaponHandlingComponent::SetIsAiming
SetIsAiming(c, bNewAiming) == [c EXCEPT !.bIsAiming = bNewAiming]

\* FMath::Clamp
Clamp(X, Min, Max) == IF X < Min THEN Min ELSE IF X > Max THEN Max ELSE X

\* The quotient rounded toward zero (b > 0).
TruncDiv(a, b) == IF a >= 0 THEN a \div b ELSE -((-a) \div b)

FInterpTo_NoClamp(Current, Target, DeltaTime, InterpSpeed) ==
    IF InterpSpeed <= 0 THEN Target
    ELSE Current + TruncDiv((Target - Current) * (DeltaTime * InterpSpeed), TicksPerSecond)

\* FMath::FInterpTo: Current + Dist * Clamp(DeltaTime * InterpSpeed, 0, 1),
\* and Target when InterpSpeed <= 0 or Current is already at Target.
FInterpTo(Current, Target, DeltaTime, InterpSpeed) ==
    IF InterpSpeed <= 0 THEN Target
    ELSE LET Dist == Target - Current
         IN  IF Dist = 0 THEN Target
             ELSE Current + TruncDiv(Dist * Clamp(DeltaTime * InterpSpeed, 0, TicksPerSecond),
                                     TicksPerSecond)

ChangeCameraFOV_NoCameraCheck(c, DeltaTime, Camera) ==
    IF c.bIsAiming
    THEN [c EXCEPT !.CurrentCameraFOV =
              FInterpTo(@, c.ZoomedCameraFOV, DeltaTime, c.ZoomInterpSpeed)]
    ELSE [c EXCEPT !.CurrentCameraFOV =
              FInterpTo(@, c.DefaultCameraFOV, DeltaTime, c.ZoomInterpSpeed)]

\* UWeaponHandlingComponent::ChangeCameraFOV.  Camera: the owner has a
\* UCameraComponent (the field of view, in degrees, is also handed to it).
ChangeCameraFOV(c, DeltaTime, Camera) ==
    IF Camera
    THEN IF c.bIsAiming
         THEN [c EXCEPT !.CurrentCameraFOV =
                   FInterpTo(@, c.ZoomedCameraFOV, DeltaTime, c.ZoomInterpSpeed)]
         ELSE [c EXCEPT !.CurrentCameraFOV =
                   FInterpTo(@, c.DefaultCameraFOV, DeltaTime, c.ZoomInterpSpeed)]
    ELSE c

\* FMath::GetMappedRangeValueClamped with input range [0, MaxSpeed] and
\* output range [0, 1]: the clamped range percentage of Value, which for an
\* empty input range is 1 at or above it and 0 below.
GetMappedRangeValueClamped(MaxSpeed, Value) ==
    IF MaxSpeed = 0
    THEN (IF Value >= MaxSpeed THEN Unit ELSE 0)
    ELSE Clamp(TruncDiv(Value * Unit, MaxSpeed), 0, Unit)

DynamicCrosshair_StaleSum(c, DeltaTime, PlayerSpeed, MaxSpeed, bIsInAir) ==
    LET InAir  == IF bIsInAir
                  THEN FInterpTo(c.InAirCrosshairMultiplier, 3 * Unit, DeltaTime, 20)
                  ELSE FInterpTo(c.InAirCrosshairMultiplier, 0, DeltaTime, 5)
        Aiming == IF c.bIsAiming
                  THEN FInterpTo(c.AimingCrosshairMultiplier, -(Unit \div 2), DeltaTime, 12)
                  ELSE FInterpTo(c.AimingCrosshairMultiplier, 0, DeltaTime, 15)
        Firing == IF c.bIsFiringWeapon
                  THEN FInterpTo(c.WeaponFireWeaponCrosshairMultiplier, (3 * Unit) \div 10, DeltaTime, 35)
                  ELSE FInterpTo(c.WeaponFireWeaponCrosshairMultiplier, 0, DeltaTime, 60)
    IN  [c |-> [c EXCEPT !.AcceleratingCrosshairMultiplier =
                             GetMappedRangeValueClamped(MaxSpeed, PlayerSpeed),
                         !.InAirCrosshairMultiplier = InAir,
                         !.AimingCrosshairMultiplier = Aiming,
                         !.WeaponFireWeaponCrosshairMultiplier = Firing],
         CrosshairMultiplier |->
             (Unit \div 2) + c.AcceleratingCrosshairMultiplier + c.InAirCrosshairMultiplier
                 + c.AimingCrosshairMultiplier + c.WeaponFireWeaponCrosshairMultiplier]

\* UWeaponHandlingComponent::DynamicCrosshair.  Yields the updated
\* component and the value written to the CrosshairMultiplier reference.
DynamicCrosshair(c, DeltaTime, PlayerSpeed, MaxSpeed, bIsInAir) ==
    LET Accel  == GetMappedRangeValueClamped(MaxSpeed, PlayerSpeed)
        InAir  == IF bIsInAir
                  THEN FInterpTo(c.InAirCrosshairMultiplier, 3 * Unit, DeltaTime, 20)
                  ELSE FInterpTo(c.InAirCrosshairMultiplier, 0, DeltaTime, 5)
        Aiming == IF c.bIsAiming
                  THEN FInterpTo(c.AimingCrosshairMultiplier, -(Unit \div 2), DeltaTime, 12)
                  ELSE FInterpTo(c.AimingCrosshairMultiplier, 0, DeltaTime, 15)
        Firing == IF c.bIsFiringWeapon
                  THEN FInterpTo(c.WeaponFireWeaponCrosshairMultiplier, (3 * Unit) \div 10, DeltaTime, 35)
                  ELSE FInterpTo(c.WeaponFireWeaponCrosshairMultiplier, 0, DeltaTime, 60)
    IN  [c |-> [c EXCEPT !.AcceleratingCrosshairMultiplier = Accel,
                         !.InAirCrosshairMultiplier = InAir,
                         !.AimingCrosshairMultiplier = Aiming,
                         !.WeaponFireWeaponCrosshairMultiplier = Firing],
         CrosshairMultiplier |-> (Unit \div 2) + Accel + InAir + Aiming + Firing]

\* UWeaponHandlingComponent::SetWeaponFireState
SetWeaponFireState(c) ==
    [c EXCEPT !.bIsFiringWeapon = TRUE,
              !.DynamicCrosshairWeaponFireTimer = TimerLevels]

ResetWeaponFireState_OpensGate(c) ==
    [c EXCEPT !.bIsFiringWeapon = FALSE, !.bShouldFireWeapon = TRUE]

\* UWeaponHandlingComponent::ResetWeaponFireState
ResetWeaponFireState(c) == [c EXCEPT !.bIsFiringWeapon = FALSE]

\* UWeaponHandlingComponent::SetShouldFireWeapon (the updated component; the
\* returned value is its bShouldFireWeapon)
SetShouldFireWeapon(c, bShouldFire) == [c EXCEPT !.bShouldFireWeapon = bShouldFire]

\* The value UWeaponHandlingComponent::SetShouldFireWeapon returns.
ReturnOfSetShouldFireWeapon(c, bShouldFire) ==
    SetShouldFireWeapon(c, bShouldFire).bShouldFireWeapon

AutoFireTimerReset_Noop(c) == c

\* UWeaponHandlingComponent::AutoFireTimerReset
AutoFireTimerReset(c) == [c EXCEPT !.bShouldFireWeapon = TRUE]

ExecuteFireWeapon_NoGate(c) ==
    [c |-> SetWeaponFireState(c), shot |-> TRUE]

\* UWeaponHandlingComponent::ExecuteFireWeapon.  shot: the body (sound,
\* weapon trace, particles, SetWeaponFireState) was executed.
ExecuteFireWeapon(c) ==
    IF c.bShouldFireWeapon
    THEN [c |-> SetWeaponFireState(c), shot |-> TRUE]
    ELSE [c |-> c, shot |-> FALSE]

FireWeapon_NoTimer(c) ==
    LET r == ExecuteFireWeapon(c)
    IN  [c |-> [r.c EXCEPT !.bShouldFireWeapon = FALSE], shot |-> r.shot]

\* UWeaponHandlingComponent::FireWeapon (declared as SetFireTimer in the
\* header and called under that name by ABelicaCharacter::StartFIreWeapon)
FireWeapon(c) ==
    LET r == ExecuteFireWeapon(c)
    IN  [c |-> [r.c EXCEPT !.bShouldFireWeapon = FALSE,
                           !.WeaponFireTimer = TimerLevels],
         shot |-> r.shot]

SetPlayerArmedState_KeepPistol(c, NewPlayerArmedState) ==
    CASE NewPlayerArmedState = "EPAS_Unarmed" ->
            [c EXCEPT !.bIsArmed = FALSE, !.bIsArmedPistol = FALSE,
                      !.bIsArmedRifle = FALSE, !.bIsArmedShotGun = FALSE]
      [] NewPlayerArmedState = "EPAS_Pistol" ->
            [c EXCEPT !.bIsArmed = TRUE, !.bIsArmedPistol = TRUE,
                      !.bIsArmedRifle = FALSE, !.bIsArmedShotGun = FALSE]
      [] NewPlayerArmedState = "EPAS_Rifle" ->
            [c EXCEPT !.bIsArmed = TRUE,
                      !.bIsArmedRifle = TRUE, !.bIsArmedShotGun = FALSE]
      [] NewPlayerArmedState = "EPAS_Shotgun" ->
            [c EXCEPT !.bIsArmed = TRUE, !.bIsArmedPistol = FALSE,
                      !.bIsArmedRifle = FALSE, !.bIsArmedShotGun = TRUE]
      [] OTHER -> c

\* UWeaponHandlingComponent::SetPlayerArmedState
SetPlayerArmedState(c, NewPlayerArmedState) ==
    CASE NewPlayerArmedState = "EPAS_Unarmed" ->
            [c EXCEPT !.bIsArmed = FALSE, !.bIsArmedPistol = FALSE,
                      !.bIsArmedRifle = FALSE, !.bIsArmedShotGun = FALSE]
      [] NewPlayerArmedState = "EPAS_Pistol" ->
            [c EXCEPT !.bIsArmed = TRUE, !.bIsArmedPistol = TRUE,
                      !.bIsArmedRifle = FALSE, !.bIsArmedShotGun = FALSE]
      [] NewPlayerArmedState = "EPAS_Rifle" ->
            [c EXCEPT !.bIsArmed = TRUE, !.bIsArmedPistol = FALSE,
                      !.bIsArmedRifle = TRUE, !.bIsArmedShotGun = FALSE]
      [] NewPlayerArmedState = "EPAS_Shotgun" ->
            [c EXCEPT !.bIsArmed = TRUE, !.bIsArmedPistol = FALSE,
                      !.bIsArmedRifle = FALSE, !.bIsArmedShotGun = TRUE]
      [] OTHER -> c

\* The armed state EquipWeapon's switch selects for a weapon type.
ArmedStateOf(type) ==
    CASE type = "EWT_Pistol"  -> "EPAS_Pistol"
      [] type = "EWT_Rifle"   -> "EPAS_Rifle"
      [] type = "EWT_Shotgun" -> "EPAS_Shotgun"

EquipWeapon_NoItemState(c, its, WeaponToEquip, eq, socket) ==
    IF socket /\ WeaponToEquip # NoWeapon /\ eq = NoWeapon
    THEN [c   |-> SetPlayerArmedState(c, ArmedStateOf(its[WeaponToEquip].WeaponType)),
          its |-> [its EXCEPT ![WeaponToEquip].Attached = TRUE],
          eq  |-> WeaponToEquip]
    ELSE [c   |-> SetPlayerArmedState(c, "EPAS_Unarmed"),
          its |-> its,
          eq  |-> eq]

EquipWeapon_OverHeldWeapon(c, its, WeaponToEquip, eq, socket) ==
    IF socket /\ WeaponToEquip # NoWeapon
    THEN LET w == WeaponToEquip
         IN  [c   |-> SetPlayerArmedState(c, ArmedStateOf(its[w].WeaponType)),
              its |-> [its EXCEPT ![w] = SetItemState([its[w] EXCEPT !.Attached = TRUE],
                                                      "EIS_Equipped")],
              eq  |-> w]
    ELSE [c   |-> SetPlayerArmedState(c, "EPAS_Unarmed"),
          its |-> its,
          eq  |-> eq]

\* UWeaponHandlingComponent::EquipWeapon.  its: all items, eq: the caller's
\* EquippedWeapon reference, socket: whether WeaponSlotSocket is non-null.
\* Yields the updated component, items and EquippedWeapon.
EquipWeapon(c, its, WeaponToEquip, eq, socket) ==
    IF socket /\ WeaponToEquip # NoWeapon /\ eq = NoWeapon
    THEN LET w == WeaponToEquip
         IN  [c   |-> SetPlayerArmedState(c, ArmedStateOf(its[w].WeaponType)),
              its |-> [its EXCEPT ![w] = SetItemState([its[w] EXCEPT !.Attached = TRUE],
                                                      "EIS_Equipped")],
              eq  |-> w]
    ELSE [c   |-> SetPlayerArmedState(c, "EPAS_Unarmed"),
          its |-> its,
          eq  |-> eq]

DropWeapon_NoThrow(its, WeaponToDrop) ==
    IF WeaponToDrop # NoWeapon
    THEN [its EXCEPT ![WeaponToDrop] =
              SetItemState([its[WeaponToDrop] EXCEPT !.Attached = FALSE], "EIS_Falling")]
    ELSE its

\* UWeaponHandlingComponent::DropWeapon
DropWeapon(its, WeaponToDrop) ==
    IF WeaponToDrop # NoWeapon
    THEN [its EXCEPT ![WeaponToDrop] =
              ThrowItem(SetItemState([its[WeaponToDrop] EXCEPT !.Attached = FALSE],
                                     "EIS_Falling"))]
    ELSE its

\* ------------------------------------------------------------------- Init

\* The objects as their constructors leave them.
InitObjects ==
    /\ item = [w \in Weapons |-> NewItem(WeaponTypeOf[w])]
    /\ WeaponHandling = NewWeaponHandling
    /\ EquippedWeapon = NoWeapon
    /\ EquipableItem = NoWeapon
    /\ sockets \in [Hand_R_Weapon_Socket : BOOLEAN, SMG_Barrel : BOOLEAN]
    /\ crashed = FALSE
    /\ lastOp = "Init"
    /\ lastArgs = << >>
    /\ shotFired = FALSE
    /\ cooldownExpired = TRUE

\* A character with no DefaultWeaponClass (the TSubclassOf default) whose
\* BeginPlay callback has run: it spawned nothing, equipped nothing and
\* bound the pickup sphere's overlap delegates.
Init ==
    /\ InitObjects
    /\ DefaultWeaponClass = NoWeapon
    /\ TestHandle = Inactive
    /\ Belica = "ABelicaCharacter"

\* The character right after ABelicaCharacter::BeginPlay: the callback is
\* pending on TestHandle.  A configured DefaultWeaponClass spawns the actor
\* w1, which does not exist before.
InitBeginPlay ==
    /\ InitObjects
    /\ DefaultWeaponClass \in {NoWeapon, "w1"}
    /\ TestHandle = TimerLevels
    /\ Belica = "ABelicaCharacter"

\* Bookkeeping of the history variables for a step of operation op that
\* made the component c and ran (shot) or did not run a shot body.
History(op, shot, reset) ==
    /\ lastOp' = op
    /\ lastArgs' = << >>
    /\ shotFired' = shot
    /\ cooldownExpired' = IF shot THEN FALSE ELSE (reset \/ cooldownExpired)

\* The same for a step of operation op called with the arguments args.
HistoryArgs(op, args) ==
    /\ lastOp' = op
    /\ lastArgs' = args
    /\ shotFired' = FALSE
    /\ UNCHANGED cooldownExpired

\* A null pointer is dereferenced: the process may die here.
Crash(op) ==
    /\ crashed' = TRUE
    /\ History(op, FALSE, FALSE)
    /\ UNCHANGED <<item, WeaponHandling, EquippedWeapon, EquipableItem, belicaSetup>>

\* ---------------------------------------------------------- engine: items

\* The engine dispatches AItem::BeginPlay once, before gameplay events
\* reach the actor.
BeginPlayItem(w) ==
    /\ ~crashed
    /\ ~item[w].begunPlay
    /\ w # DefaultWeaponClass
    /\ item' = [item EXCEPT ![w] = ItemBeginPlay(item[w])]
    /\ History("other", FALSE, FALSE)
    /\ UNCHANGED <<WeaponHandling, EquippedWeapon, EquipableItem, belicaSetup, crashed>>

\* ThrowItemTimer's clock advances.
ThrowTimerElapse(w) ==
    /\ ~crashed
    /\ item[w].ThrowItemTimer > 0
    /\ item' = [item EXCEPT ![w].ThrowItemTimer = @ - 1]
    /\ History("other", FALSE, FALSE)
    /\ UNCHANGED <<WeaponHandling, EquippedWeapon, EquipableItem, belicaSetup, crashed>>

\* ThrowItemTimer expires: the timer manager calls AItem::StopFalling.
ThrowTimerExpire(w) ==
    /\ ~crashed
    /\ item[w].ThrowItemTimer = 0
    /\ item' = [item EXCEPT ![w] = StopFalling([item[w] EXCEPT !.ThrowItemTimer = Inactive])]
    /\ History("StopFalling", FALSE, FALSE)
    /\ UNCHANGED <<WeaponHandling, EquippedWeapon, EquipableItem, belicaSetup, crashed>>

\* AItem::SetActiveStars as AItem::BeginPlay calls it.  An element access
\* outside the array is a failed range check or a write outside the
\* allocation: the process dies or carries on.
CallSetActiveStars(w) ==
    /\ ~crashed
    /\ LET r == SetActiveStars(item[w])
       IN  /\ item' = [item EXCEPT ![w] = r.it]
           /\ crashed' \in (IF r.outOfRange THEN BOOLEAN ELSE {FALSE})
    /\ HistoryArgs("SetActiveStars", <<w>>)
    /\ UNCHANGED <<WeaponHandling, EquippedWeapon, EquipableItem, belicaSetup>>

\* ItemRarity is EditAnywhere: the editor's details panel changes it.
EditItemRarity(w, Rarity) ==
    /\ ~crashed
    /\ item[w].ItemRarity # Rarity
    /\ item' = [item EXCEPT ![w].ItemRarity = Rarity]
    /\ History("other", FALSE, FALSE)
    /\ UNCHANGED <<WeaponHandling, EquippedWeapon, EquipableItem, belicaSetup, crashed>>

\* CollisionSphere->OnComponentBeginOverlap: the engine reports that an actor
\* (the player character or another one) began to overlap the sphere of w.
CollisionSphereBeginOverlap(w, bIsPlayer) ==
    /\ ~crashed
    /\ item[w].begunPlay
    /\ item' = [item EXCEPT ![w] = ItemOnOverlapBegin(item[w], bIsPlayer)]
    /\ HistoryArgs("AItem::OnOverlapBegin", <<w, bIsPlayer>>)
    /\ UNCHANGED <<WeaponHandling, EquippedWeapon, EquipableItem, belicaSetup, crashed>>

\* CollisionSphere->OnComponentEndOverlap
CollisionSphereEndOverlap(w, bIsPlayer) ==
    /\ ~crashed
    /\ item[w].begunPlay
    /\ item' = [item EXCEPT ![w] = ItemOnOverlapEnd(item[w], bIsPlayer)]
    /\ HistoryArgs("AItem::OnOverlapEnd", <<w, bIsPlayer>>)
    /\ UNCHANGED <<WeaponHandling, EquippedWeapon, EquipableItem, belicaSetup, crashed>>

\* The public AItem::IncreaseOverlappedItemCount called with any Amount.
CallIncreaseOverlappedItemCount(w, Amount) ==
    /\ ~crashed
    /\ item[w].begunPlay
    /\ item' = [item EXCEPT ![w] = IncreaseOverlappedItemCount(item[w], Amount)]
    /\ HistoryArgs("IncreaseOverlappedItemCount", <<w, Amount>>)
    /\ UNCHANGED <<WeaponHandling, EquippedWeapon, EquipableItem, belicaSetup, crashed>>

\* ------------------------------------------------- engine: component timers

WeaponFireTimerElapse ==
    /\ ~crashed
    /\ WeaponHandling.WeaponFireTimer > 0
    /\ WeaponHandling' = [WeaponHandling EXCEPT !.WeaponFireTimer = @ - 1]
    /\ History("other", FALSE, FALSE)
    /\ UNCHANGED <<item, EquippedWeapon, EquipableItem, belicaSetup, crashed>>

\* WeaponFireTimer expires: the timer manager calls AutoFireTimerReset.
WeaponFireTimerExpire ==
    /\ ~crashed
    /\ WeaponHandling.WeaponFireTimer = 0
    /\ WeaponHandling' = AutoFireTimerReset([WeaponHandling EXCEPT !.WeaponFireTimer = Inactive])
    /\ History("AutoFireTimerReset", FALSE, TRUE)
    /\ UNCHANGED <<item, EquippedWeapon, EquipableItem, belicaSetup, crashed>>

CrosshairTimerElapse ==
    /\ ~crashed
    /\ WeaponHandling.DynamicCrosshairWeaponFireTimer > 0
    /\ WeaponHandling' = [WeaponHandling EXCEPT !.DynamicCrosshairWeaponFireTimer = @ - 1]
    /\ History("other", FALSE, FALSE)
    /\ UNCHANGED <<item, EquippedWeapon, EquipableItem, belicaSetup, crashed>>

\* DynamicCrosshairWeaponFireTimer expires: the timer manager calls
\* ResetWeaponFireState.
CrosshairTimerExpire ==
    /\ ~crashed
    /\ WeaponHandling.DynamicCrosshairWeaponFireTimer = 0
    /\ WeaponHandling' = ResetWeaponFireState(
            [WeaponHandling EXCEPT !.DynamicCrosshairWeaponFireTimer = Inactive])
    /\ History("ResetWeaponFireState", FALSE, FALSE)
    /\ UNCHANGED <<item, EquippedWeapon, EquipableItem, belicaSetup, crashed>>

\* ------------------------------------------------------- ABelicaCharacter

\* UWeaponHandlingComponent::SpawnDefaultWeapon: SpawnActor constructs the
\* weapon and dispatches its BeginPlay.  Yields the items and the weapon.
SpawnDefaultWeapon(its, cls) ==
    IF cls # NoWeapon
    THEN [its |-> [its EXCEPT ![cls] = ItemBeginPlay(NewItem(its[cls].WeaponType))],
          Weapon |-> cls]
    ELSE [its |-> its, Weapon |-> NoWeapon]

\* ABelicaCharacter::HandleDefaultWeaponSpawn.  The spawned Weapon is not
\* used: the EquipWeapon call is written with three arguments, the weapon
\* argument being the member EquippedWeapon, which is also the only
\* AWeapon* the call can bind the EquippedWeapon reference to.
HandleDefaultWeaponSpawn(c, its, eq, socket, cls) ==
    LET sp == SpawnDefaultWeapon(its, cls)
    IN  EquipWeapon(c, sp.its, eq, eq, socket)

\* TestHandle's clock advances.
TestHandleElapse ==
    /\ ~crashed
    /\ TestHandle > 0
    /\ TestHandle' = TestHandle - 1
    /\ History("other", FALSE, FALSE)
    /\ UNCHANGED <<item, WeaponHandling, EquippedWeapon, EquipableItem, sockets,
                   DefaultWeaponClass, Belica, crashed>>

\* TestHandle expires: the lambda of ABelicaCharacter::BeginPlay runs
\* HandleDefaultWeaponSpawn and binds the pickup sphere's overlap delegates.
TestHandleExpire ==
    /\ ~crashed
    /\ TestHandle = 0
    /\ TestHandle' = Inactive
    /\ LET r == HandleDefaultWeaponSpawn(WeaponHandling, item, EquippedWeapon,
                                         sockets.Hand_R_Weapon_Socket, DefaultWeaponClass)
       IN  /\ WeaponHandling' = r.c
           /\ item' = r.its
           /\ EquippedWeapon' = r.eq
    /\ History("HandleDefaultWeaponSpawn", FALSE, FALSE)
    /\ UNCHANGED <<EquipableItem, sockets, DefaultWeaponClass, Belica, crashed>>

\* ABelicaCharacter::OnOverlapBegin with an item as OtherActor; the delegate
\* is bound by the BeginPlay callback.
OnOverlapBegin(w) ==
    /\ ~crashed
    /\ TestHandle = Inactive
    /\ item[w].begunPlay
    /\ EquipableItem' = w
    /\ History("other", FALSE, FALSE)
    /\ UNCHANGED <<item, WeaponHandling, EquippedWeapon, belicaSetup, crashed>>

\* ABelicaCharacter::OnOverlapEnd
OnOverlapEnd ==
    /\ ~crashed
    /\ TestHandle = Inactive
    /\ EquipableItem' = NoWeapon
    /\ History("other", FALSE, FALSE)
    /\ UNCHANGED <<item, WeaponHandling, EquippedWeapon, belicaSetup, crashed>>

\* ABelicaCharacter::HandleEquipWeapon.  After EquipWeapon it reads
\* EquippedWeapon->GetName(): with EquippedWeapon null that is a null
\* dereference, after which the process dies or carries on.
HandleEquipWeapon ==
    /\ ~crashed
    /\ IF EquipableItem # NoWeapon
       THEN LET r == EquipWeapon(WeaponHandling, item, EquipableItem, EquippedWeapon,
                                 sockets.Hand_R_Weapon_Socket)
            IN  /\ WeaponHandling' = r.c
                /\ item' = r.its
                /\ EquippedWeapon' = r.eq
                /\ crashed' \in (IF r.eq = NoWeapon THEN BOOLEAN ELSE {FALSE})
       ELSE UNCHANGED <<item, WeaponHandling, EquippedWeapon, crashed>>
    /\ History("HandleEquipWeapon", FALSE, FALSE)
    /\ UNCHANGED <<EquipableItem, belicaSetup>>

\* ABelicaCharacter::UnEquipWeapon (ABelicaController::HandleUnEquipWeapon)
UnEquipWeapon ==
    /\ ~crashed
    /\ item' = DropWeapon(item, EquippedWeapon)
    /\ EquippedWeapon' = NoWeapon
    /\ WeaponHandling' = SetPlayerArmedState(WeaponHandling, "EPAS_Unarmed")
    /\ HistoryArgs("UnEquipWeapon", <<EquippedWeapon>>)
    /\ UNCHANGED <<EquipableItem, belicaSetup, crashed>>

\* ABelicaCharacter::StartAiming (ABelicaController::HandleAimStart)
StartAiming ==
    /\ ~crashed
    /\ WeaponHandling' = SetIsAiming(WeaponHandling, TRUE)
    /\ History("other", FALSE, FALSE)
    /\ UNCHANGED <<item, EquippedWeapon, EquipableItem, belicaSetup, crashed>>

\* ABelicaCharacter::StopAiming (ABelicaController::HandleAimEnd)
StopAiming ==
    /\ ~crashed
    /\ WeaponHandling' = SetIsAiming(WeaponHandling, FALSE)
    /\ History("other", FALSE, FALSE)
    /\ UNCHANGED <<item, EquippedWeapon, EquipableItem, belicaSetup, crashed>>

StartFIreWeapon_NoArmedCheck ==
    /\ ~crashed
    /\ IF WeaponHandling.bShouldFireWeapon
       THEN \/ /\ ~sockets.SMG_Barrel
               /\ Crash("StartFIreWeapon")
            \/ LET r == FireWeapon(WeaponHandling)
               IN  /\ WeaponHandling' = r.c
                   /\ History("StartFIreWeapon", r.shot, FALSE)
                   /\ UNCHANGED <<item, EquippedWeapon, EquipableItem, belicaSetup, crashed>>
       ELSE /\ History("StartFIreWeapon", FALSE, FALSE)
            /\ UNCHANGED <<item, WeaponHandling, EquippedWeapon, EquipableItem,
                           belicaSetup, crashed>>

\* ABelicaCharacter::StartFIreWeapon (ABelicaController::HandleFireWeaponStart).
\* BarrelSocket is dereferenced unchecked: without the SMG_Barrel socket
\* the process dies or carries on with the call.
StartFIreWeapon ==
    /\ ~crashed
    /\ IF WeaponHandling.bShouldFireWeapon /\ WeaponHandling.bIsArmed
       THEN \/ /\ ~sockets.SMG_Barrel
               /\ Crash("StartFIreWeapon")
            \/ LET r == FireWeapon(WeaponHandling)
               IN  /\ WeaponHandling' = r.c
                   /\ History("StartFIreWeapon", r.shot, FALSE)
                   /\ UNCHANGED <<item, EquippedWeapon, EquipableItem, belicaSetup, crashed>>
       ELSE /\ History("StartFIreWeapon", FALSE, FALSE)
            /\ UNCHANGED <<item, WeaponHandling, EquippedWeapon, EquipableItem,
                           belicaSetup, crashed>>

\* ABelicaCharacter::EndWeaponFIre (ABelicaController::HandleFireWeaponEnd)
EndWeaponFIre ==
    /\ ~crashed
    /\ WeaponHandling' = SetShouldFireWeapon(WeaponHandling, TRUE)
    /\ History("EndWeaponFIre", FALSE, FALSE)
    /\ UNCHANGED <<item, EquippedWeapon, EquipableItem, belicaSetup, crashed>>

\* ----------------- the component's operations, called with any arguments

CallFireWeapon ==
    /\ ~crashed
    /\ LET r == FireWeapon(WeaponHandling)
       IN  /\ WeaponHandling' = r.c
           /\ History("FireWeapon", r.shot, FALSE)
    /\ UNCHANGED <<item, EquippedWeapon, EquipableItem, belicaSetup, crashed>>

\* DynamicCrosshair as ABelicaCharacter::CalculateCrosshairSpread calls it
\* each Tick: the frame time, the horizontal speed, the movement
\* component's maximum speed and whether the character is falling.  The
\* value written to CrosshairMultiplier is kept as the fifth argument.
CallDynamicCrosshair(DeltaTime, PlayerSpeed, MaxSpeed, bIsInAir) ==
    /\ ~crashed
    /\ LET r == DynamicCrosshair(WeaponHandling, DeltaTime, PlayerSpeed, MaxSpeed, bIsInAir)
       IN  /\ WeaponHandling' = r.c
           /\ HistoryArgs("DynamicCrosshair",
                          <<DeltaTime, PlayerSpeed, MaxSpeed, bIsInAir, r.CrosshairMultiplier>>)
    /\ UNCHANGED <<item, EquippedWeapon, EquipableItem, belicaSetup, crashed>>

\* ChangeCameraFOV as ABelicaCharacter::Tick and ABelicaController::Tick
\* call it each frame, on an owner with or without a camera component.
CallChangeCameraFOV(DeltaTime, Camera) ==
    /\ ~crashed
    /\ WeaponHandling' = ChangeCameraFOV(WeaponHandling, DeltaTime, Camera)
    /\ HistoryArgs("ChangeCameraFOV", <<DeltaTime, Camera>>)
    /\ UNCHANGED <<item, EquippedWeapon, EquipableItem, belicaSetup, crashed>>

CallSetWeaponFireState ==
    /\ ~crashed
    /\ WeaponHandling' = SetWeaponFireState(WeaponHandling)
    /\ History("SetWeaponFireState", FALSE, FALSE)
    /\ UNCHANGED <<item, EquippedWeapon, EquipableItem, belicaSetup, crashed>>

CallSetShouldFireWeapon(b) ==
    /\ ~crashed
    /\ WeaponHandling' = SetShouldFireWeapon(WeaponHandling, b)
    /\ HistoryArgs("SetShouldFireWeapon",
                   <<b, ReturnOfSetShouldFireWeapon(WeaponHandling, b)>>)
    /\ UNCHANGED <<item, EquippedWeapon, EquipableItem, belicaSetup, crashed>>

CallSetPlayerArmedState(s) ==
    /\ ~crashed
    /\ WeaponHandling' = SetPlayerArmedState(WeaponHandling, s)
    /\ HistoryArgs("SetPlayerArmedState", <<s>>)
    /\ UNCHANGED <<item, EquippedWeapon, EquipableItem, belicaSetup, crashed>>

CallEquipWeapon(w, socket) ==
    /\ ~crashed
    /\ w # NoWeapon => item[w].begunPlay
    /\ LET r == EquipWeapon(WeaponHandling, item, w, EquippedWeapon, socket)
       IN  /\ WeaponHandling' = r.c
           /\ item' = r.its
           /\ EquippedWeapon' = r.eq
    /\ HistoryArgs("EquipWeapon", <<w, socket>>)
    /\ UNCHANGED <<EquipableItem, belicaSetup, crashed>>

\* --------------------------------------------------------- ABelicaController

\* Cast<ABelicaCharacter>(aPawn)
CastToBelicaCharacter(aPawn) ==
    IF aPawn = "ABelicaCharacter" THEN aPawn ELSE NoCharacter

\* ABelicaController::OnPossess: Belica is the cast of the possessed pawn.
OnPossess(aPawn) ==
    /\ ~crashed
    /\ Belica' = CastToBelicaCharacter(aPawn)
    /\ HistoryArgs("OnPossess", <<aPawn>>)
    /\ UNCHANGED <<item, WeaponHandling, EquippedWeapon, EquipableItem, sockets,
                   DefaultWeaponClass, TestHandle, crashed>>

\* ABelicaController::Tick: ChangeCameraFOV on the character, whose
\* FollowCamera is its camera component, guarded by if (Belica).
Tick(DeltaTime) ==
    IF Belica # NoCharacter
    THEN CallChangeCameraFOV(DeltaTime, TRUE)
    ELSE /\ ~crashed
         /\ History("Tick", FALSE, FALSE)
         /\ UNCHANGED <<item, WeaponHandling, EquippedWeapon, EquipableItem,
                        belicaSetup, crashed>>

\* An input handler calls a member function through a null Belica: the
\* process dies there or carries on.
CallOnNullBelica(handler) ==
    /\ ~crashed
    /\ Belica = NoCharacter
    /\ crashed' \in BOOLEAN
    /\ History(handler, FALSE, FALSE)
    /\ UNCHANGED <<item, WeaponHandling, EquippedWeapon, EquipableItem, belicaSetup>>

\* An input handler whose call on the character (movement, look, jump,
\* gait) changes nothing of the weapon state.
CallOnBelica(handler) ==
    \/ /\ ~crashed
       /\ Belica # NoCharacter
       /\ History("other", FALSE, FALSE)
       /\ UNCHANGED <<item, WeaponHandling, EquippedWeapon, EquipableItem,
                      belicaSetup, crashed>>
    \/ CallOnNullBelica(handler)

\* ABelicaController::Move
Move == CallOnBelica("Move")

\* ABelicaController::HandleLookAndAiming
HandleLookAndAiming == CallOnBelica("HandleLookAndAiming")

\* ABelicaController::Jump
Jump == CallOnBelica("Jump")

\* ABelicaController::HandleRun
HandleRun == CallOnBelica("HandleRun")

\* ABelicaController::HandleWalk
HandleWalk == CallOnBelica("HandleWalk")

\* ABelicaController::HandleCrouch
HandleCrouch == CallOnBelica("HandleCrouch")

\* ABelicaController::HandleFireWeaponStart
HandleFireWeaponStart ==
    \/ Belica # NoCharacter /\ StartFIreWeapon
    \/ CallOnNullBelica("HandleFireWeaponStart")

\* ABelicaController::HandleFireWeaponEnd
HandleFireWeaponEnd ==
    \/ Belica # NoCharacter /\ EndWeaponFIre
    \/ CallOnNullBelica("HandleFireWeaponEnd")

\* ABelicaController::HandleAimStart
HandleAimStart ==
    \/ Belica # NoCharacter /\ StartAiming
    \/ CallOnNullBelica("HandleAimStart")

\* ABelicaController::HandleAimEnd
HandleAimEnd ==
    \/ Belica # NoCharacter /\ StopAiming
    \/ CallOnNullBelica("HandleAimEnd")

\* ABelicaController::HandleUnEquipWeapon
HandleUnEquipWeapon ==
    \/ Belica # NoCharacter /\ UnEquipWeapon
    \/ CallOnNullBelica("HandleUnEquipWeapon")

\* ------------------------------------------------------- specifications

\* The events that reach the component through the character.
NextChar ==
    \/ \E w \in Weapons : BeginPlayItem(w)
    \/ \E w \in Weapons : ThrowTimerElapse(w)
    \/ \E w \in Weapons : ThrowTimerExpire(w)
    \/ WeaponFireTimerElapse
    \/ WeaponFireTimerExpire
    \/ CrosshairTimerElapse
    \/ CrosshairTimerExpire
    \/ \E w \in Weapons : OnOverlapBegin(w)
    \/ OnOverlapEnd
    \/ HandleEquipWeapon
    \/ UnEquipWeapon
    \/ StartAiming
    \/ StopAiming
    \/ StartFIreWeapon
    \/ EndWeaponFIre

\* The component and the items under calls with any arguments of the
\* operations the character uses, and the character's UnEquipWeapon (the
\* caller that owns the reference DropWeapon is given).
Next ==
    \/ \E w \in Weapons : BeginPlayItem(w)
    \/ \E w \in Weapons : ThrowTimerElapse(w)
    \/ \E w \in Weapons : ThrowTimerExpire(w)
    \/ WeaponFireTimerElapse
    \/ WeaponFireTimerExpire
    \/ CrosshairTimerElapse
    \/ CrosshairTimerExpire
    \/ UnEquipWeapon
    \/ CallFireWeapon
    \/ \E b \in BOOLEAN : CallSetShouldFireWeapon(b)
    \/ \E s \in EPlayerArmedState : CallSetPlayerArmedState(s)
    \/ \E w \in Weapons \cup {NoWeapon}, socket \in BOOLEAN : CallEquipWeapon(w, socket)

\* For the specifications whose actions never read the character's sockets
\* (a socket is then an argument of the call): the mesh has both.
InitItems ==
    /\ Init
    /\ sockets = [Hand_R_Weapon_Socket |-> TRUE, SMG_Barrel |-> TRUE]

Spec == InitItems /\ [][Next]_vars

SpecChar == Init /\ [][NextChar]_vars

\* The character from its BeginPlay on.
NextBeginPlay ==
    \/ TestHandleElapse
    \/ TestHandleExpire
    \/ NextChar

SpecBeginPlay == InitBeginPlay /\ [][NextBeginPlay]_vars

\* An item in the world under the overlap events of its collision sphere.
NextOverlap ==
    \/ \E w \in Weapons : BeginPlayItem(w)
    \/ \E w \in Weapons, bIsPlayer \in BOOLEAN : CollisionSphereBeginOverlap(w, bIsPlayer)
    \/ \E w \in Weapons, bIsPlayer \in BOOLEAN : CollisionSphereEndOverlap(w, bIsPlayer)

SpecOverlap == InitItems /\ [][NextOverlap]_vars

\* The same with IncreaseOverlappedItemCount also called directly.
NextItemCount ==
    \/ NextOverlap
    \/ \E w \in Weapons, Amount \in (-MaxAmount)..MaxAmount :
            CallIncreaseOverlappedItemCount(w, Amount)

SpecItemCount == InitItems /\ [][NextItemCount]_vars

\* Items whose ActiveStars array holds any number of elements up to
\* MaxStarSlots (none as constructed; the property is serialized), all
\* false, and whose rarity is any value of the enumeration.
InitStars ==
    /\ \E Num \in [Weapons -> 0..MaxStarSlots], Rarity \in [Weapons -> EItemRarity] :
          item = [w \in Weapons |->
                     [NewItem(WeaponTypeOf[w]) EXCEPT !.ItemRarity = Rarity[w],
                                                      !.ActiveStars = NewArray(Num[w])]]
    /\ WeaponHandling = NewWeaponHandling
    /\ EquippedWeapon = NoWeapon
    /\ EquipableItem = NoWeapon
    /\ sockets = [Hand_R_Weapon_Socket |-> TRUE, SMG_Barrel |-> TRUE]
    /\ DefaultWeaponClass = NoWeapon
    /\ TestHandle = Inactive
    /\ Belica = "ABelicaCharacter"
    /\ crashed = FALSE
    /\ lastOp = "Init"
    /\ lastArgs = << >>
    /\ shotFired = FALSE
    /\ cooldownExpired = TRUE

NextStars ==
    \/ \E w \in Weapons : CallSetActiveStars(w)
    \/ \E w \in Weapons, Rarity \in EItemRarity : EditItemRarity(w, Rarity)

SpecStars == InitStars /\ [][NextStars]_vars

\* The component under per-frame DynamicCrosshair calls while the aiming
\* and firing flags change.
NextCrosshair ==
    \/ \E DeltaTime \in 0..MaxDeltaTime, PlayerSpeed \in 0..(MaxSpeedLevels + 1),
          MaxSpeed \in {0, MaxSpeedLevels}, bIsInAir \in BOOLEAN :
            CallDynamicCrosshair(DeltaTime, PlayerSpeed, MaxSpeed, bIsInAir)
    \/ StartAiming
    \/ StopAiming
    \/ CallSetWeaponFireState
    \/ CrosshairTimerElapse
    \/ CrosshairTimerExpire

SpecCrosshair == InitItems /\ [][NextCrosshair]_vars

\* The component under per-frame ChangeCameraFOV calls and aim events.
NextFOV ==
    \/ \E DeltaTime \in 0..MaxDeltaTime, Camera \in BOOLEAN :
            CallChangeCameraFOV(DeltaTime, Camera)
    \/ StartAiming
    \/ StopAiming

\* The four field-of-view properties are EditAnywhere: the constructor's
\* values (90, 90, 45, 20) or edited ones, with the current field of view
\* starting between the zoomed and the default one.
InitFOV ==
    /\ \E Zoomed \in {45, 60}, Current \in {60, 70, 90}, Speed \in {0, 5, 20} :
          WeaponHandling = [NewWeaponHandling EXCEPT !.ZoomedCameraFOV = Zoomed,
                                                     !.CurrentCameraFOV = Current,
                                                     !.ZoomInterpSpeed = Speed]
    /\ item = [w \in Weapons |-> NewItem(WeaponTypeOf[w])]
    /\ EquippedWeapon = NoWeapon
    /\ EquipableItem = NoWeapon
    /\ sockets = [Hand_R_Weapon_Socket |-> TRUE, SMG_Barrel |-> TRUE]
    /\ DefaultWeaponClass = NoWeapon
    /\ TestHandle = Inactive
    /\ Belica = "ABelicaCharacter"
    /\ crashed = FALSE
    /\ lastOp = "Init"
    /\ lastArgs = << >>
    /\ shotFired = FALSE
    /\ cooldownExpired = TRUE

SpecFOV == InitFOV /\ [][NextFOV]_vars

\* A controller that has possessed nothing yet, next to a character whose
\* mesh has the hand socket.
InitController ==
    /\ InitObjects
    /\ sockets.Hand_R_Weapon_Socket
    /\ DefaultWeaponClass = NoWeapon
    /\ TestHandle = Inactive
    /\ Belica = NoCharacter

\* The controller's events (possession, frames, input), with the events
\* that reach the character and the items without it (the crosshair's
\* timer, which no handler reads, aside).
NextController ==
    \/ \E aPawn \in Pawns : OnPossess(aPawn)
    \/ \E DeltaTime \in {0, MaxDeltaTime} : Tick(DeltaTime)
    \/ Move
    \/ HandleLookAndAiming
    \/ Jump
    \/ HandleRun
    \/ HandleWalk
    \/ HandleCrouch
    \/ HandleFireWeaponStart
    \/ HandleFireWeaponEnd
    \/ HandleAimStart
    \/ HandleAimEnd
    \/ HandleUnEquipWeapon
    \/ \E w \in Weapons : BeginPlayItem(w)
    \/ \E w \in Weapons : ThrowTimerElapse(w)
    \/ \E w \in Weapons : ThrowTimerExpire(w)
    \/ WeaponFireTimerElapse
    \/ WeaponFireTimerExpire
    \/ \E w \in Weapons : OnOverlapBegin(w)
    \/ OnOverlapEnd
    \/ HandleEquipWeapon

SpecController == InitController /\ [][NextController]_vars

\* Pending timers keep running and fire.
TimerFairness ==
    /\ \A w \in Weapons : WF_vars(ThrowTimerElapse(w)) /\ WF_vars(ThrowTimerExpire(w))
    /\ WF_vars(WeaponFireTimerElapse) /\ WF_vars(WeaponFireTimerExpire)
    /\ WF_vars(CrosshairTimerElapse) /\ WF_vars(CrosshairTimerExpire)

LiveSpec == Init /\ [][NextChar]_vars /\ TimerFairness

TypeOK ==
    /\ \A w \in Weapons : item[w].ItemState \in EItemState
    /\ EquippedWeapon \in Weapons \cup {NoWeapon}
    /\ EquipableItem \in Weapons \cup {NoWeapon}

\* ------------------------------------------------------------ properties

Falling(w) == item[w].ItemState = "EIS_Falling"

\* The item is back in the world and no longer flagged as falling.
Settled(w) == item[w].ItemState = "EIS_InWorld" /\ ~item[w].bIsFalling

\* C1: every change of an item's ItemState is InWorld -> Equipped,
\* Equipped -> Falling or Falling -> InWorld, and the state is never
\* Equipping or Stored.
C1_OnlyThreeTransitions ==
    [][\A w \in Weapons :
          /\ item'[w].ItemState \notin {"EIS_Equipping", "EIS_Stored"}
          /\ item'[w].ItemState # item[w].ItemState =>
                <<item[w].ItemState, item'[w].ItemState>> \in
                    { <<"EIS_InWorld", "EIS_Equipped">>,
                      <<"EIS_Equipped", "EIS_Falling">>,
                      <<"EIS_Falling", "EIS_InWorld">> }]_vars

\* The number of the four armed-state booleans that are true.
ArmedFlagCount ==
    Cardinality({f \in {"bIsArmed", "bIsArmedPistol", "bIsArmedRifle", "bIsArmedShotGun"} :
                    WeaponHandling[f]})

\* C2 as stated: at most one of bIsArmed, bIsArmedPistol, bIsArmedRifle,
\* bIsArmedShotGun is true (exactly one, or none when unarmed).
C2_ExactlyOneOfFour == ArmedFlagCount \in {0, 1}

\* C2 as amended: either all four armed-state booleans are false, or
\* bIsArmed is true together with exactly one of the three type booleans.
C2_ArmedFlagsConsistent ==
    \/ ArmedFlagCount = 0
    \/ WeaponHandling.bIsArmed /\ ArmedFlagCount = 2

C2_Witness ==
    /\ lastOp = "EquipWeapon"
    /\ EquippedWeapon # NoWeapon
    /\ WeaponHandling.bIsArmed
    /\ WeaponHandling.bIsArmedShotGun

\* C3: the body of ExecuteFireWeapon runs only in a call that finds
\* bShouldFireWeapon true, and it sets bIsFiringWeapon.
C3_ShotOnlyWhenGateOpen ==
    [][shotFired' => WeaponHandling.bShouldFireWeapon /\ WeaponHandling'.bIsFiringWeapon]_vars

C3_Witness ==
    /\ shotFired
    /\ WeaponHandling.bIsFiringWeapon
    /\ ~WeaponHandling.bShouldFireWeapon

\* C4: a shot is executed only if the cooldown timer started by the
\* previous shot has expired (AutoFireTimerReset has run since that shot).
C4_NoShotBeforeCooldownExpiry ==
    [][shotFired' => cooldownExpired]_vars

\* C5: when FireWeapon returns, bShouldFireWeapon is false and the
\* WeaponFireTimer is pending; its expiry runs AutoFireTimerReset, which
\* leaves bShouldFireWeapon true and no WeaponFireTimer pending.
C5_FireWeaponClosesGateAndArmsTimer ==
    [][/\ lastOp' = "FireWeapon" =>
            /\ ~WeaponHandling'.bShouldFireWeapon
            /\ WeaponHandling'.WeaponFireTimer = TimerLevels
       /\ lastOp' = "AutoFireTimerReset" =>
            /\ WeaponHandling.WeaponFireTimer = 0
            /\ WeaponHandling'.WeaponFireTimer = Inactive
            /\ WeaponHandling'.bShouldFireWeapon]_vars

C5_Witness ==
    /\ lastOp = "FireWeapon"
    /\ ~WeaponHandling.bShouldFireWeapon
    /\ WeaponHandling.WeaponFireTimer # Inactive

\* The gate is closed and the cooldown timer of a shot is running.
CoolingDown ==
    ~WeaponHandling.bShouldFireWeapon /\ WeaponHandling.WeaponFireTimer # Inactive

\* C6: a FireWeapon call made while cooling down executes no shot and
\* leaves bShouldFireWeapon, bIsFiringWeapon and both timers, the running
\* cooldown timer included, unchanged.
C6_CallWhileCoolingDownChangesNothing ==
    [][(lastOp' = "FireWeapon" /\ CoolingDown) =>
            /\ ~shotFired'
            /\ WeaponHandling'.bShouldFireWeapon = WeaponHandling.bShouldFireWeapon
            /\ WeaponHandling'.bIsFiringWeapon = WeaponHandling.bIsFiringWeapon
            /\ WeaponHandling'.DynamicCrosshairWeaponFireTimer =
                   WeaponHandling.DynamicCrosshairWeaponFireTimer
            /\ WeaponHandling'.WeaponFireTimer = WeaponHandling.WeaponFireTimer]_vars

C8_IndependentFlagsAndTimers ==
    [][/\ (~WeaponHandling.bIsFiringWeapon /\ WeaponHandling'.bIsFiringWeapon) => shotFired'
       /\ (WeaponHandling.bIsFiringWeapon /\ ~WeaponHandling'.bIsFiringWeapon) =>
              lastOp' = "ResetWeaponFireState"
       /\ lastOp' \in {"AutoFireTimerReset", "SetShouldFireWeapon"} =>
              /\ WeaponHandling'.bIsFiringWeapon = WeaponHandling.bIsFiringWeapon
              /\ WeaponHandling'.DynamicCrosshairWeaponFireTimer =
                     WeaponHandling.DynamicCrosshairWeaponFireTimer
       /\ lastOp' = "ResetWeaponFireState" =>
              /\ WeaponHandling'.bShouldFireWeapon = WeaponHandling.bShouldFireWeapon
              /\ WeaponHandling'.WeaponFireTimer = WeaponHandling.WeaponFireTimer]_vars

C8_Witness ==
    /\ lastOp = "ResetWeaponFireState"
    /\ ~WeaponHandling.bIsFiringWeapon
    /\ ~WeaponHandling.bShouldFireWeapon
    /\ WeaponHandling.WeaponFireTimer # Inactive

\* C9: a Falling item always has a pending throw timer; the expiry of the
\* throw timer runs StopFalling and leaves the item InWorld with bIsFalling
\* false; and in every run in which the throw timer does get to expire
\* (the process stays alive and the item is not thrown again and again
\* forever, each throw restarting the timer) every fall ends in that state.
C9_ThrownItemSettles ==
    /\ [](\A w \in Weapons : Falling(w) => item[w].ThrowItemTimer # Inactive)
    /\ [][\A w \in Weapons :
             (item[w].ThrowItemTimer = 0 /\ item'[w].ThrowItemTimer = Inactive) =>
                 (lastOp' = "StopFalling" /\ Settled(w)')]_vars
    /\ \A w \in Weapons :
          \/ []<>(item[w].ThrowItemTimer = TimerLevels)
          \/ <>crashed
          \/ (Falling(w) ~> Settled(w))

\* The throw timer of w, the only item that has begun play and so the only
\* one that was ever equipped and thrown, has just run StopFalling.
C9_Witness ==
    \E w \in Weapons :
        /\ lastOp = "StopFalling"
        /\ Settled(w)
        /\ EquippedWeapon = NoWeapon
        /\ item[w].ThrowItemTimer = Inactive
        /\ item[w].begunPlay
        /\ \A v \in Weapons \ {w} : ~item[v].begunPlay

\* C10: after BeginPlay an item's physics and collision configuration is
\* determined by its ItemState: physics and gravity iff Falling, sphere and
\* box collision iff InWorld, and no collision at all when Equipped.
C10_PropertiesFollowState ==
    \A w \in Weapons :
        item[w].begunPlay =>
            /\ item[w].MeshSimulatePhysics = Falling(w)
            /\ item[w].MeshEnableGravity = Falling(w)
            /\ (item[w].SphereCollision # "NoCollision") = (item[w].ItemState = "EIS_InWorld")
            /\ (item[w].BoxCollision # "NoCollision") = (item[w].ItemState = "EIS_InWorld")
            /\ item[w].ItemState = "EIS_Equipped" =>
                   /\ item[w].MeshCollision = "NoCollision"
                   /\ item[w].SphereCollision = "NoCollision"
                   /\ item[w].BoxCollision = "NoCollision"

C10_Witness ==
    \E w, v \in Weapons :
        /\ item[w].begunPlay /\ item[w].ItemState = "EIS_Equipped"
        /\ item[v].begunPlay /\ Falling(v)

\* ------------------------------------------------- C11..C13: overlap count

\* C11: after any sequence of overlap-begin and overlap-end events the int8
\* OverlappedItemCount is never negative (it saturates, it does not wrap).
C11_CountNeverNegative ==
    \A w \in Weapons : item[w].OverlappedItemCount >= 0

\* C12: IncreaseOverlappedItemCount(Amount) with Amount > 0 makes the count
\* the old count plus Amount and bShouldTraceForItem true; with Amount <= 0
\* it makes the count 0 and bShouldTraceForItem false.
C12_IncreaseOverlappedItemCount ==
    [][lastOp' = "IncreaseOverlappedItemCount" =>
          LET w == lastArgs'[1]
              Amount == lastArgs'[2]
          IN  IF Amount > 0
              THEN /\ item'[w].OverlappedItemCount = item[w].OverlappedItemCount + Amount
                   /\ item'[w].bShouldTraceForItem
              ELSE /\ item'[w].OverlappedItemCount = 0
                   /\ ~item'[w].bShouldTraceForItem]_vars

\* C13: an overlap-end of the player character on an item whose count is
\* k > 1 leaves the count k - 1 and bShouldTraceForItem true.
C13_OverlapEndDecrements ==
    [][(lastOp' = "AItem::OnOverlapEnd" /\ lastArgs'[2]
            /\ item[lastArgs'[1]].OverlappedItemCount > 1) =>
          LET w == lastArgs'[1]
          IN  /\ item'[w].OverlappedItemCount = item[w].OverlappedItemCount - 1
              /\ item'[w].bShouldTraceForItem]_vars

\* ------------------------------------------------------ C14: barrel socket

\* C14: a fire request arriving while the mesh has no SMG_Barrel socket is
\* skipped: no null dereference, no shot, and bShouldFireWeapon,
\* bIsFiringWeapon and both timers are left unchanged.
C14_MissingBarrelSocketSkipsFire ==
    [][(lastOp' = "StartFIreWeapon" /\ ~sockets.SMG_Barrel) =>
            /\ ~crashed'
            /\ ~shotFired'
            /\ WeaponHandling'.bShouldFireWeapon = WeaponHandling.bShouldFireWeapon
            /\ WeaponHandling'.bIsFiringWeapon = WeaponHandling.bIsFiringWeapon
            /\ WeaponHandling'.WeaponFireTimer = WeaponHandling.WeaponFireTimer
            /\ WeaponHandling'.DynamicCrosshairWeaponFireTimer =
                   WeaponHandling.DynamicCrosshairWeaponFireTimer]_vars

\* ------------------------------------------------- C15..C18: equipping

\* bIsArmed and exactly the type boolean of the weapon type are true.
ArmedFlagsMatch(c, type) ==
    /\ c.bIsArmed
    /\ c.bIsArmedPistol = (type = "EWT_Pistol")
    /\ c.bIsArmedRifle = (type = "EWT_Rifle")
    /\ c.bIsArmedShotGun = (type = "EWT_Shotgun")

\* C15: EquipWeapon called with a non-null socket, a non-null WeaponToEquip
\* and a null EquippedWeapon makes EquippedWeapon the weapon, puts the weapon
\* in ItemState Equipped and sets bIsArmed and exactly the boolean of the
\* weapon's type; the same holds of the function for a weapon of any of the
\* three types, whatever the component's state.
C15_EquipWeaponSucceeds ==
    /\ [][(/\ lastOp' = "EquipWeapon"
            /\ lastArgs'[2]
            /\ lastArgs'[1] # NoWeapon
            /\ EquippedWeapon = NoWeapon) =>
              LET w == lastArgs'[1]
              IN  /\ EquippedWeapon' = w
                  /\ item'[w].ItemState = "EIS_Equipped"
                  /\ ArmedFlagsMatch(WeaponHandling', item[w].WeaponType)]_vars
    /\ [](\A w \in Weapons, type \in EWeaponType :
            LET r == EquipWeapon(WeaponHandling, [item EXCEPT ![w].WeaponType = type],
                                 w, NoWeapon, TRUE)
            IN  /\ r.eq = w
                /\ r.its[w].ItemState = "EIS_Equipped"
                /\ ArmedFlagsMatch(r.c, type))

\* EquipWeapon has just equipped the shotgun w2.
C15_Witness ==
    /\ lastOp = "EquipWeapon"
    /\ lastArgs = <<"w2", TRUE>>
    /\ EquippedWeapon = "w2"
    /\ item["w2"].ItemState = "EIS_Equipped"
    /\ WeaponHandling.bIsArmedShotGun
    /\ ~WeaponHandling.bIsArmedPistol

\* C16: after UnEquipWeapon EquippedWeapon is null and all four armed
\* booleans are false; a weapon that was held is Falling with bIsFalling
\* true and its throw timer pending, and no other item changes; if none was
\* held, no item changes.
C16_UnEquipWeapon ==
    [][lastOp' = "UnEquipWeapon" =>
          /\ EquippedWeapon' = NoWeapon
          /\ ~WeaponHandling'.bIsArmed
          /\ ~WeaponHandling'.bIsArmedPistol
          /\ ~WeaponHandling'.bIsArmedRifle
          /\ ~WeaponHandling'.bIsArmedShotGun
          /\ IF EquippedWeapon # NoWeapon
             THEN /\ item'[EquippedWeapon].ItemState = "EIS_Falling"
                  /\ item'[EquippedWeapon].bIsFalling
                  /\ item'[EquippedWeapon].ThrowItemTimer # Inactive
                  /\ \A v \in Weapons \ {EquippedWeapon} : item'[v] = item[v]
             ELSE item' = item]_vars

\* UnEquipWeapon has just thrown the weapon w that was held.
C16_Witness ==
    \E w \in Weapons :
        /\ lastOp = "UnEquipWeapon"
        /\ lastArgs = <<w>>
        /\ EquippedWeapon = NoWeapon
        /\ Falling(w)
        /\ item[w].bIsFalling
        /\ item[w].ThrowItemTimer = TimerLevels
        /\ ~WeaponHandling.bIsArmed

\* C17: HandleEquipWeapon called while a weapon is equipped and a different
\* weapon is the EquipableItem unequips the old weapon and equips the new
\* one: afterwards EquippedWeapon is the new weapon in state Equipped, the
\* old weapon is no longer Equipped and the armed state matches the new
\* weapon's type.
C17_HandleEquipWeaponSwaps ==
    [][(/\ lastOp' = "HandleEquipWeapon"
        /\ EquippedWeapon # NoWeapon
        /\ EquipableItem # NoWeapon
        /\ EquipableItem # EquippedWeapon) =>
          /\ EquippedWeapon' = EquipableItem
          /\ item'[EquipableItem].ItemState = "EIS_Equipped"
          /\ item'[EquippedWeapon].ItemState # "EIS_Equipped"
          /\ ArmedFlagsMatch(WeaponHandling', item[EquipableItem].WeaponType)]_vars

\* C18: when the BeginPlay callback runs HandleDefaultWeaponSpawn with a
\* DefaultWeaponClass configured and the hand socket present, the spawned
\* weapon becomes EquippedWeapon, is in ItemState Equipped and the armed
\* state matches its type.
C18_DefaultWeaponEquipped ==
    [][(/\ lastOp' = "HandleDefaultWeaponSpawn"
        /\ DefaultWeaponClass # NoWeapon
        /\ sockets.Hand_R_Weapon_Socket) =>
          /\ EquippedWeapon' = DefaultWeaponClass
          /\ item'[DefaultWeaponClass].ItemState = "EIS_Equipped"
          /\ ArmedFlagsMatch(WeaponHandling', item'[DefaultWeaponClass].WeaponType)]_vars

\* ------------------------------------------------ C19, C20: crosshair spread

\* C19: the CrosshairMultiplier a DynamicCrosshair call writes is 0.5 plus
\* the four contributors as that call has just updated them.
C19_CrosshairIsBasePlusContributors ==
    [][lastOp' = "DynamicCrosshair" =>
          lastArgs'[5] = (Unit \div 2)
                           + WeaponHandling'.AcceleratingCrosshairMultiplier
                           + WeaponHandling'.InAirCrosshairMultiplier
                           + WeaponHandling'.AimingCrosshairMultiplier
                           + WeaponHandling'.WeaponFireWeaponCrosshairMultiplier]_vars

\* A call has just moved all four contributors away from zero and changed
\* the in-air one.
C19_Witness ==
    /\ lastOp = "DynamicCrosshair"
    /\ lastArgs[1] > 0
    /\ WeaponHandling.AcceleratingCrosshairMultiplier > 0
    /\ WeaponHandling.InAirCrosshairMultiplier \in 1..(3 * Unit - 1)
    /\ WeaponHandling.AimingCrosshairMultiplier < 0
    /\ WeaponHandling.WeaponFireWeaponCrosshairMultiplier > 0

\* New lies between Old and Target, ends included.
Toward(Old, New, Target) ==
    IF Old <= Target THEN Old <= New /\ New <= Target
                     ELSE Target <= New /\ New <= Old

\* C20: over DynamicCrosshair calls with DeltaTime >= 0 each contributor
\* moves toward its target and never past it (in air 3.0, else 0; aiming
\* -0.5, else 0; firing 0.3, else 0), so InAir stays in [0, 3.0], Aiming in
\* [-0.5, 0], Firing in [0, 0.3]; Accelerating is PlayerSpeed mapped
\* linearly from [0, MaxSpeed] to [0, 1] and clamped; and the written
\* CrosshairMultiplier is in [0, 4.8].
C20_ContributorsBounded ==
    /\ [](/\ WeaponHandling.InAirCrosshairMultiplier \in 0..(3 * Unit)
          /\ WeaponHandling.AimingCrosshairMultiplier \in (-(Unit \div 2))..0
          /\ WeaponHandling.WeaponFireWeaponCrosshairMultiplier \in 0..((3 * Unit) \div 10)
          /\ WeaponHandling.AcceleratingCrosshairMultiplier \in 0..Unit)
    /\ [][lastOp' = "DynamicCrosshair" =>
            LET PlayerSpeed == lastArgs'[2]
                MaxSpeed == lastArgs'[3]
                bIsInAir == lastArgs'[4]
            IN  /\ Toward(WeaponHandling.InAirCrosshairMultiplier,
                          WeaponHandling'.InAirCrosshairMultiplier,
                          IF bIsInAir THEN 3 * Unit ELSE 0)
                /\ Toward(WeaponHandling.AimingCrosshairMultiplier,
                          WeaponHandling'.AimingCrosshairMultiplier,
                          IF WeaponHandling.bIsAiming THEN -(Unit \div 2) ELSE 0)
                /\ Toward(WeaponHandling.WeaponFireWeaponCrosshairMultiplier,
                          WeaponHandling'.WeaponFireWeaponCrosshairMultiplier,
                          IF WeaponHandling.bIsFiringWeapon THEN (3 * Unit) \div 10 ELSE 0)
                /\ MaxSpeed > 0 =>
                      WeaponHandling'.AcceleratingCrosshairMultiplier =
                          IF PlayerSpeed >= MaxSpeed THEN Unit
                          ELSE (PlayerSpeed * Unit) \div MaxSpeed
                /\ lastArgs'[5] >= 0
                /\ 10 * lastArgs'[5] <= 48 * Unit]_vars

\* A call has just written the largest spread, 4.8: full speed, in air at
\* 3.0, not aiming, firing at 0.3.
C20_Witness ==
    /\ lastOp = "DynamicCrosshair"
    /\ WeaponHandling.AcceleratingCrosshairMultiplier = Unit
    /\ WeaponHandling.InAirCrosshairMultiplier = 3 * Unit
    /\ WeaponHandling.AimingCrosshairMultiplier = 0
    /\ WeaponHandling.WeaponFireWeaponCrosshairMultiplier = (3 * Unit) \div 10
    /\ 10 * lastArgs[5] = 48 * Unit

\* ------------------------------------------------ C21: SetShouldFireWeapon

\* C21: SetShouldFireWeapon(b) returns true when it has set the firing state
\* to b, for b true and for b false, and afterwards GetShouldFireWeapon() is b.
C21_SetShouldFireWeaponReturnsTrue ==
    [][lastOp' = "SetShouldFireWeapon" =>
          /\ lastArgs'[2] = TRUE
          /\ WeaponHandling'.bShouldFireWeapon = lastArgs'[1]]_vars

\* ------------------------------------------------------ C22: active stars

\* The indices of the true elements of an item's ActiveStars.
TrueStars(it) == {i \in DOMAIN it.ActiveStars : it.ActiveStars[i]}

\* The number of stars the claim gives a rarity.
StarCount(Rarity) ==
    CASE Rarity = "EIR_Damaged"   -> 1
      [] Rarity = "EIR_Common"    -> 2
      [] Rarity = "EIR_Rare"      -> 3
      [] Rarity = "EIR_Legendary" -> 4
      [] Rarity = "EIR_Mythic"    -> 5
      [] OTHER -> 0

\* C22: after SetActiveStars the true elements of ActiveStars are exactly
\* the indices 1..n, n being 1 for Damaged, 2 for Common, 3 for Rare, 4 for
\* Legendary, 5 for Mythic and 0 for Cold or any other rarity (and the call
\* returns).
C22_StarsFollowRarity ==
    [][lastOp' = "SetActiveStars" =>
          LET w == lastArgs'[1]
          IN  /\ ~crashed'
              /\ TrueStars(item'[w]) = 1..StarCount(item[w].ItemRarity)]_vars

\* -------------------------------------------------------- C23: camera FOV

\* C23: over ChangeCameraFOV calls and aim start/stop events
\* CurrentCameraFOV stays in [ZoomedCameraFOV, DefaultCameraFOV]; a call on
\* an owner with a camera moves it toward ZoomedCameraFOV while aiming and
\* toward DefaultCameraFOV otherwise, never past the target; a call on an
\* owner without a camera leaves it unchanged.
C23_CameraFOVBounded ==
    /\ [](/\ WeaponHandling.ZoomedCameraFOV <= WeaponHandling.CurrentCameraFOV
          /\ WeaponHandling.CurrentCameraFOV <= WeaponHandling.DefaultCameraFOV)
    /\ [][lastOp' = "ChangeCameraFOV" =>
            IF lastArgs'[2]
            THEN Toward(WeaponHandling.CurrentCameraFOV, WeaponHandling'.CurrentCameraFOV,
                        IF WeaponHandling.bIsAiming THEN WeaponHandling.ZoomedCameraFOV
                                                    ELSE WeaponHandling.DefaultCameraFOV)
            ELSE WeaponHandling'.CurrentCameraFOV = WeaponHandling.CurrentCameraFOV]_vars

\* A call on an owner with a camera has just brought the field of view all
\* the way down to ZoomedCameraFOV while aiming.
C23_Witness ==
    /\ lastOp = "ChangeCameraFOV"
    /\ lastArgs[1] > 0
    /\ lastArgs[2]
    /\ WeaponHandling.bIsAiming
    /\ WeaponHandling.ZoomInterpSpeed = 20
    /\ WeaponHandling.ZoomedCameraFOV = 45
    /\ WeaponHandling.CurrentCameraFOV = WeaponHandling.ZoomedCameraFOV

\* ------------------------------------------ C24, C25: the held weapon

\* C24: whenever EquippedWeapon is non-null that weapon's ItemState is
\* Equipped; a throw timer left pending from an earlier drop never moves a
\* weapon that is held again to InWorld.
C24_HeldWeaponIsEquipped ==
    EquippedWeapon # NoWeapon => item[EquippedWeapon].ItemState = "EIS_Equipped"

\* C25: over HandleEquipWeapon and UnEquipWeapon calls bIsArmed is true
\* exactly when EquippedWeapon is non-null.
C25_ArmedIffHolding ==
    WeaponHandling.bIsArmed <=> EquippedWeapon # NoWeapon

\* --------------------------------------------------- C26: the type flags

\* The type flags of the component that are true.
ArmedTypeFlags ==
    {f \in {"bIsArmedPistol", "bIsArmedRifle", "bIsArmedShotGun"} : WeaponHandling[f]}

\* C26: at most one of bIsArmedPistol, bIsArmedRifle, bIsArmedShotGun is
\* true and bIsArmed is their disjunction; SetPlayerArmedState(EPAS_MAX)
\* leaves the four flags unchanged.
C26_TypeFlagsExclusive ==
    /\ [](/\ Cardinality(ArmedTypeFlags) <= 1
          /\ WeaponHandling.bIsArmed <=> ArmedTypeFlags # {})
    /\ [][(lastOp' = "SetPlayerArmedState" /\ lastArgs' = <<"EPAS_MAX">>) =>
            \A f \in {"bIsArmed", "bIsArmedPistol", "bIsArmedRifle", "bIsArmedShotGun"} :
                WeaponHandling'[f] = WeaponHandling[f]]_vars

\* SetPlayerArmedState(EPAS_MAX) has just been called on an armed player.
C26_Witness ==
    /\ lastOp = "SetPlayerArmedState"
    /\ lastArgs = <<"EPAS_MAX">>
    /\ WeaponHandling.bIsArmed
    /\ WeaponHandling.bIsArmedRifle

\* ------------------------------------------------ C27: no unarmed shots

\* C27: through the character a shot is executed only in a step that finds
\* bShouldFireWeapon and bIsArmed true; UnEquipWeapon leaves the player
\* unarmed and only a successful equip arms the player again, and a fire
\* input in between executes no shot and leaves the component, the fire
\* gate and the cooldown timer included, as it was.
C27_NoShotWhileUnarmed ==
    [][/\ shotFired' => WeaponHandling.bShouldFireWeapon /\ WeaponHandling.bIsArmed
       /\ lastOp' = "UnEquipWeapon" => ~WeaponHandling'.bIsArmed
       /\ (~WeaponHandling.bIsArmed /\ WeaponHandling'.bIsArmed) =>
             /\ lastOp' = "HandleEquipWeapon"
             /\ EquippedWeapon = NoWeapon
             /\ EquippedWeapon' # NoWeapon
       /\ (lastOp' = "StartFIreWeapon" /\ ~WeaponHandling.bIsArmed) =>
             /\ ~shotFired'
             /\ WeaponHandling' = WeaponHandling]_vars

\* A fire input arrived with the gate open after the weapon was thrown
\* away: nothing is held, the thrown weapon is still falling, no shot.
C27_Witness ==
    /\ lastOp = "StartFIreWeapon"
    /\ ~crashed
    /\ ~shotFired
    /\ EquippedWeapon = NoWeapon
    /\ ~WeaponHandling.bIsArmed
    /\ WeaponHandling.bShouldFireWeapon
    /\ \E w \in Weapons : item[w].ItemState = "EIS_Falling"

\* ------------------------------------------------- C28: the falling flag

\* C28: between operations an item's bIsFalling is true exactly when its
\* ItemState is Falling.
C28_FallingFlagMatchesState ==
    \A w \in Weapons : item[w].bIsFalling <=> item[w].ItemState = "EIS_Falling"

\* ------------------------------------------- C29: EquipWeapon's else branch

\* C29: EquipWeapon called with a null socket, a null WeaponToEquip or a
\* non-null EquippedWeapon attaches nothing, leaves EquippedWeapon and every
\* item's ItemState unchanged and sets the armed state to Unarmed.
C29_EquipWeaponRefused ==
    [][(/\ lastOp' = "EquipWeapon"
        /\ \/ ~lastArgs'[2]
           \/ lastArgs'[1] = NoWeapon
           \/ EquippedWeapon # NoWeapon) =>
          /\ EquippedWeapon' = EquippedWeapon
          /\ \A w \in Weapons :
                /\ item'[w].Attached = item[w].Attached
                /\ item'[w].ItemState = item[w].ItemState
          /\ ArmedFlagCount' = 0]_vars

\* EquipWeapon has just been asked, socket present, to equip the shotgun
\* w2 while the pistol w1 is held.
C29_Witness ==
    /\ lastOp = "EquipWeapon"
    /\ lastArgs = <<"w2", TRUE>>
    /\ EquippedWeapon = "w1"
    /\ item["w1"].Attached
    /\ ~item["w2"].Attached
    /\ item["w2"].ItemState = "EIS_InWorld"
    /\ ~WeaponHandling.bIsArmed

\* --------------------------------- C30: HandleEquipWeapon's debug message

\* C30: HandleEquipWeapon never dereferences a null EquippedWeapon: the
\* statement after the EquipWeapon call, reached when EquipableItem is a
\* weapon, reads EquippedWeapon->GetName() only with EquippedWeapon
\* non-null, and the process does not die there.
C30_HandleEquipWeaponNoNullDeref ==
    [][(lastOp' = "HandleEquipWeapon" /\ EquipableItem # NoWeapon) =>
          /\ EquippedWeapon' # NoWeapon
          /\ ~crashed']_vars

\* ------------------------------------------- C31: the controller's Belica

\* The input handlers OnPossess binds.
InputHandlers ==
    {"Move", "HandleLookAndAiming", "Jump", "HandleFireWeaponStart",
     "HandleFireWeaponEnd", "HandleAimStart", "HandleAimEnd", "HandleUnEquipWeapon",
     "HandleRun", "HandleWalk", "HandleCrouch"}

\* C31: with Belica null (OnPossess was given a pawn that is not an
\* ABelicaCharacter) an input event, like a Tick, is absorbed: no null
\* pointer is dereferenced, the process stays alive and the character, the
\* component and the items are left as they were.
C31_NullBelicaAbsorbed ==
    [][(Belica = NoCharacter /\ lastOp' \in InputHandlers \cup {"Tick"}) =>
          /\ ~crashed'
          /\ UNCHANGED <<item, WeaponHandling, EquippedWeapon, EquipableItem>>]_vars

====
